---- MODULE Spec2Model ----
(***************************************************************************)
(* Model of the source crawler of F8ai/sourcing-agent:                     *)
(*   src/src/utils/scraper.py   CannabisSourceScraper                      *)
(*   src/scrape_sources.py      the CLI driver scrape_sources / main       *)
(*                                                                         *)
(* asyncio runs every coroutine on one thread: a task runs without         *)
(* interruption from one suspension point (an await that really waits) to  *)
(* the next.  Each action below is one such uninterrupted stretch of code. *)
(***************************************************************************)
EXTENDS Integers, Sequences, FiniteSets, TLC

(* ---------------------------------------------------------------- bounds *)

\* Largest number of source descriptors in a catalog.
MaxSources == 2

\* Largest value of --max-concurrent that is tried (the smallest is -1).
MaxConcurrent == 2

\* Largest number of states under sources_by_state when only the flattening
\* is examined.
MaxStates == 2

\* Largest number of times the extraction is run on one document.
MaxRuns == 2

(* ------------------------------------------------------- python values *)

\* A str and an int never compare equal in Python; the two are kept apart
\* by a tag so that record['status'] can hold 'success', 'error' or 404.
PyStr(s) == [str |-> s]
PyInt(n) == [int |-> n]

\* dict.get(key): the value, or None when the key is absent.
None == [none |-> TRUE]
Get(d, key) == IF key \in DOMAIN d THEN d[key] ELSE None

\* A URL string is kept as scheme + rest so that startswith() and the
\* concatenation 'https://' + url are computed, not assumed.
Url(scheme, rest) == [scheme |-> scheme, rest |-> rest]
UrlText(u) == u.scheme \o u.rest

\* datetime.now().isoformat(): the capture time is not modelled further.
Now == "2025-01-01T00:00:00"

(* ------------------------------------------------- source descriptors *)

\* A source descriptor as json.load delivers it.  mapping = FALSE is a JSON
\* value that is no object (a string, a number, null): it has no .get().
\* has_url = FALSE is an object without the key 'url'.
Descriptor(mapping, has_url, url, has_name) ==
    [mapping |-> mapping, has_url |-> has_url, url |-> url, has_name |-> has_name]

GoodSource     == Descriptor(TRUE, TRUE, Url("", "good.example.com"), TRUE)
EmptyUrlSource == Descriptor(TRUE, TRUE, Url("", ""), TRUE)
NoUrlSource    == Descriptor(TRUE, FALSE, Url("", ""), TRUE)
NotAMapping    == Descriptor(FALSE, FALSE, Url("", ""), FALSE)

Descriptors == {GoodSource, EmptyUrlSource, NoUrlSource, NotAMapping}

\* A descriptor with a url and without the optional key 'name'; it matters to
\* the dry-run listing only.
UnnamedSource == Descriptor(TRUE, TRUE, Url("", "good.example.com"), FALSE)

\* Sequences over S of length at most n.
SeqsUpTo(S, n) == UNION {[1..k -> S] : k \in 0..n}

(* ------------------------------------------------------------ catalog *)

\* self.sources_data: the sections scrape_all_sources reads.  A section that
\* is absent and a section that is an empty list are both falsy for the
\* code's `if ....get(key):` tests and are both the empty sequence here.
\* sources_by_state holds at most one state.
Catalog(preferred, states, nat_materials, nat_equipment) ==
    [preferred_sources |-> preferred,
     sources_by_state  |-> states,
     national_suppliers |-> [materials |-> nat_materials, equipment |-> nat_equipment]]

StateData(materials, equipment) == [materials |-> materials, equipment |-> equipment]

\* `if d.get(key): ... d[key]`: what the code reads from d under key, nothing
\* when the key is absent or its value is empty.
Section(d, key) == IF key \in DOMAIN d THEN d[key] ELSE <<>>

\* The loop over sources_by_state.items(), in the order of the file.
RECURSIVE FlattenStates(_)
FlattenStates(states) ==
    IF states = <<>> THEN <<>>
    ELSE Section(Head(states), "materials") \o Section(Head(states), "equipment")
           \o FlattenStates(Tail(states))

\* scrape_all_sources, "Collect all sources".  The faulty variant reads the
\* national suppliers before the states.
FlattenCatalogNationalFirst(data) ==
    Section(data, "preferred_sources")
      \o Section(Section(data, "national_suppliers"), "materials")
      \o Section(Section(data, "national_suppliers"), "equipment")
      \o FlattenStates(Section(data, "sources_by_state"))
FlattenCatalog(data) ==
    Section(data, "preferred_sources")
      \o FlattenStates(Section(data, "sources_by_state"))
      \o Section(Section(data, "national_suppliers"), "materials")
      \o Section(Section(data, "national_suppliers"), "equipment")

EmptyCatalog == Catalog(<<>>, <<>>, <<>>, <<>>)

\* The sources file: absent, present but no valid JSON, or a valid catalog.
FileStates == {"missing", "malformed", "ok"}

\* _load_sources: the parsed file, or {} when open() or json.load() raises.
\* The faulty variant does not look at whether the file could be read.
LoadSourcesUnchecked(file, content) == content
LoadSources(file, content) == IF file = "ok" THEN content ELSE EmptyCatalog

\* The catalogs tried: every way of cutting a list of at most max_sources
\* descriptors into the five sections, with and without an entry for the state
\* when the state has no sources.
CatalogsOver(descriptors, max_sources) ==
    LET Lists == SeqsUpTo(descriptors, max_sources)
        Cut(l, a, b, c, d, with_state) ==
            Catalog(SubSeq(l, 1, a),
                    IF with_state
                    THEN <<StateData(SubSeq(l, a + 1, b), SubSeq(l, b + 1, c))>>
                    ELSE <<>>,
                    SubSeq(l, c + 1, d),
                    SubSeq(l, d + 1, Len(l)))
        Cuts(l) ==
            {q \in [a : 0..Len(l), b : 0..Len(l), c : 0..Len(l), d : 0..Len(l),
                    with_state : BOOLEAN] :
                /\ q.a <= q.b /\ q.b <= q.c /\ q.c <= q.d
                /\ (~q.with_state => q.a = q.c)}
    IN  UNION {{Cut(l, q.a, q.b, q.c, q.d, q.with_state) : q \in Cuts(l)} : l \in Lists}

Catalogs == CatalogsOver(Descriptors, MaxSources)

\* Catalogs in which any key may be absent, for the flattening alone: a
\* section is absent, empty, or one of two lists that differ in length and in
\* their first element; sources_by_state holds up to max_states states, each
\* with or without its two keys.
SectionValues == {<<>>, <<GoodSource>>, <<NoUrlSource, GoodSource>>}
Optional(key, Values) == {<<>>} \cup {[k \in {key} |-> v] : v \in Values}
StateDatas ==
    {m @@ e : m \in Optional("materials", SectionValues),
              e \in Optional("equipment", SectionValues)}
SparseCatalogs(max_states) ==
    {p @@ s @@ n : p \in Optional("preferred_sources", SectionValues),
                   s \in Optional("sources_by_state", SeqsUpTo(StateDatas, max_states)),
                   n \in Optional("national_suppliers", StateDatas)}

(* --------------------------------------------------------------- state *)

VARIABLES
    sources_file,    \* what is on disk at args.sources_file ("overwritten": a snapshot)
    sources_data,    \* scraper.sources_data (before construction: the file's content)
    max_concurrent,  \* the max_concurrent argument
    dry_run,         \* args.dry_run
    driver,          \* position of the CLI driver ("lib": no driver, the library is called directly)
    interrupted,     \* a SIGINT arrived during the batch await
    saved,           \* the snapshot file: "no", "written" or "failed"
    exit_code,       \* the exit status of the process (-1 while it runs)
    announced,       \* the count the driver printed as "Found N sources to scrape" (-1: none)
    listed,          \* the descriptors the dry-run listing has printed, in order
    session,         \* scraper.session: 0 is None, k > 0 the k-th ClientSession
    created,         \* number of ClientSession objects constructed so far
    closed,          \* the sessions on which close() has completed
    sa,              \* position of scrape_all_sources
    all_sources,     \* its local all_sources
    semaphore,       \* the value of its asyncio.Semaphore
    holder,          \* tasks inside `async with semaphore`
    tpc,             \* position of each scrape_with_semaphore task
    tres,            \* what each task returned or raised
    tsession,        \* the session _get_session handed to each task (0: none)
    requests,        \* number of session.get() calls issued per descriptor
    outcome,         \* how the fetch of each task ended
    report,          \* the Run Report scrape_all_sources returned
    html,            \* the document the extraction is run on
    extracted,       \* what each run of the extraction on it returned
    ret              \* what scrape_sources is about to return or raise

vars == <<sources_file, sources_data, max_concurrent, dry_run, driver, interrupted,
          saved, exit_code, announced, listed, session, created, closed, sa, all_sources, semaphore,
          holder, tpc, tres, tsession, requests, outcome, report, html, extracted, ret>>

\* The driver's variables and the scraper's catalog.
cli_vars == <<sources_file, sources_data, max_concurrent, dry_run, driver, interrupted,
              saved, exit_code, announced, listed, ret>>

\* The variables of the extraction.
extract_vars == <<html, extracted>>

\* The tasks gather was given, one per element of all_sources.
Tasks == DOMAIN tpc

NoResult == [pending |-> TRUE]
NoReport == [pending |-> TRUE]
NoDocument == [pending |-> TRUE]

(* -------------------------------------------------------- scrape_source *)

\* `if not url:` for url = source.get('url').  The faulty variant is
\* `if url is None:`, which lets the empty string through.
UrlIsNone(source) == ~source.has_url
UrlFalsy(source) == ~source.has_url \/ UrlText(source.url) = ""

\* "Add protocol if missing".
AddProtocol(url) ==
    IF url.scheme \in {"http://", "https://"} THEN url
    ELSE Url("https://", UrlText(url))

NoUrlRecord == [error |-> "No URL provided"]

\* The `else` of `if response.status == 200`.  The faulty variant marks the
\* record with the string 'error' instead of the integer code.
HttpErrorRecordStatusText(url, status) ==
    [url |-> url, error |-> "HTTP " \o ToString(status), status |-> PyStr("error")]
HttpErrorRecord(url, status) ==
    [url |-> url, error |-> "HTTP " \o ToString(status), status |-> PyInt(status)]

SuccessRecord(url) ==
    [url |-> url, timestamp |-> Now, status |-> PyStr("success"), title |-> ""]

\* The `except Exception as e` handler.  The faulty variant reports a fixed
\* text instead of str(e).
ExceptionRecordFixedText(url, message) ==
    [url |-> url, error |-> "Scrape failed", status |-> PyStr("error"), timestamp |-> Now]
ExceptionRecord(url, message) ==
    [url |-> url, error |-> message, status |-> PyStr("error"), timestamp |-> Now]

\* An exception object: what isinstance(result, Exception) is true of.
Raised(message) == [exception |-> TRUE, message |-> message]
IsException(r) == "exception" \in DOMAIN r

\* source.get('url') on a descriptor that is no mapping.
NoGetAttribute == Raised("object has no attribute 'get'")

\* What session.get() and the reading and parsing of the response can do.
\* A response carries an HTTP status; an exception carries str(e).  The
\* total-timeout of ClientTimeout(total=30) surfaces as asyncio.TimeoutError
\* constructed without arguments, whose str() is the empty string.
\* An exception can also come after the response has arrived with status 200:
\* `await response.text()` raises when the body cannot be decoded, and the
\* parse is inside the same try block.  Such an outcome is an exception that
\* carries the status 200 (an exception without response carries 0).
HttpStatuses == {200, 404}
ExceptionMessages == {"Cannot connect to host", ""}
BodyMessages == {"codec can't decode byte"}
FetchOutcomes ==
    {[kind |-> "response", status |-> s, message |-> ""] : s \in HttpStatuses}
      \cup {[kind |-> "exception", status |-> 0, message |-> m] : m \in ExceptionMessages}
      \cup {[kind |-> "exception", status |-> 200, message |-> m] : m \in BodyMessages}
NoOutcome == [kind |-> "none", status |-> 0, message |-> ""]

\* The record scrape_source returns once the fetch has the given outcome.
\* The faulty variant tests `response.status < 500` instead of `== 200`.
RecordOfBelow500(url, o) ==
    IF o.kind = "exception" THEN ExceptionRecord(url, o.message)
    ELSE IF o.status >= 500 THEN HttpErrorRecord(url, o.status)
    ELSE SuccessRecord(url)
RecordOf(url, o) ==
    IF o.kind = "exception" THEN ExceptionRecord(url, o.message)
    ELSE IF o.status /= 200 THEN HttpErrorRecord(url, o.status)
    ELSE SuccessRecord(url)

\* _get_session: the pair <<self.session, created>> after the call.  There is
\* no await between the test and the assignment.  The faulty variant has no
\* test.
GetSessionAlways(s, n) == <<n + 1, n + 1>>
GetSession(s, n) == IF s = 0 THEN <<n + 1, n + 1>> ELSE <<s, n>>

(* --------------------------------------------------- scrape_all_sources *)

\* asyncio.Semaphore.locked(): acquire() has to wait.  The two faulty variants
\* wait one slot too early, and never.
LockedOffByOne(value) == value <= 1
LockedNever(value) == FALSE
Locked(value) == value <= 0

\* gather(*tasks, return_exceptions=True); the faulty variant leaves the
\* keyword out.
ReturnExceptionsOff == FALSE
return_exceptions == TRUE

\* Nothing has run yet.
NotStarted ==
    /\ interrupted = FALSE
    /\ saved = "no"
    /\ exit_code = -1
    /\ announced = -1
    /\ listed = <<>>
    /\ ret = "unset"
    /\ session = 0
    /\ created = 0
    /\ closed = {}
    /\ sa = "idle"
    /\ all_sources = <<>>
    /\ semaphore = 0
    /\ holder = {}
    /\ tpc = <<>>
    /\ tres = <<>>
    /\ tsession = <<>>
    /\ requests = <<>>
    /\ outcome = <<>>
    /\ report = NoReport
    /\ html = NoDocument
    /\ extracted = <<>>

\* What Init and InitCLI share.
Fresh ==
    /\ sources_file \in FileStates
    /\ \E content \in Catalogs : sources_data = LoadSources(sources_file, content)
    /\ max_concurrent \in -1..MaxConcurrent
    /\ NotStarted

\* A CannabisSourceScraper has been constructed (__init__) and
\* scrape_all_sources is about to be called on it.
Init ==
    /\ Fresh
    /\ dry_run = FALSE
    /\ driver = "lib"

\* scrape_all_sources up to `await asyncio.gather(...)`: flatten the catalog,
\* build the semaphore (ValueError for a negative value) and create one task
\* per descriptor.
ScrapeAllStart ==
    /\ sa = "idle"
    /\ driver \in {"lib", "call"}
    /\ all_sources' = FlattenCatalog(sources_data)
    /\ IF max_concurrent < 0
       THEN /\ sa' = "raised"
            /\ UNCHANGED <<semaphore, tpc, tres, tsession, requests, outcome>>
       ELSE /\ sa' = "gather"
            /\ semaphore' = max_concurrent
            /\ tpc' = [i \in 1..Len(all_sources') |-> "pending"]
            /\ tres' = [i \in 1..Len(all_sources') |-> NoResult]
            /\ tsession' = [i \in 1..Len(all_sources') |-> 0]
            /\ requests' = [i \in 1..Len(all_sources') |-> 0]
            /\ outcome' = [i \in 1..Len(all_sources') |-> NoOutcome]
    /\ UNCHANGED <<cli_vars, extract_vars, session, created, closed, holder, report>>

\* A task is admitted by the semaphore and runs scrape_source up to its first
\* suspension: the descriptor without .get() raises out of the task (the slot
\* is given back on the way out), the descriptor without URL returns its
\* record and the task goes to sleep, any other gets the session and issues
\* its request.
TaskEnter(i) ==
    /\ i \in Tasks
    /\ sa = "gather"
    /\ tpc[i] = "pending"
    /\ ~Locked(semaphore)
    /\ LET source == all_sources[i] IN
       IF ~source.mapping
       THEN /\ tpc' = [tpc EXCEPT ![i] = "done"]
            /\ tres' = [tres EXCEPT ![i] = NoGetAttribute]
            /\ UNCHANGED <<semaphore, holder, session, created, tsession, requests>>
       ELSE IF UrlFalsy(source)
       THEN /\ tpc' = [tpc EXCEPT ![i] = "sleeping"]
            /\ tres' = [tres EXCEPT ![i] = NoUrlRecord]
            /\ semaphore' = semaphore - 1
            /\ holder' = holder \cup {i}
            /\ UNCHANGED <<session, created, tsession, requests>>
       ELSE /\ tpc' = [tpc EXCEPT ![i] = "fetching"]
            /\ session' = GetSession(session, created)[1]
            /\ created' = GetSession(session, created)[2]
            /\ tsession' = [tsession EXCEPT ![i] = session']
            /\ requests' = [requests EXCEPT ![i] = @ + 1]
            /\ semaphore' = semaphore - 1
            /\ holder' = holder \cup {i}
            /\ UNCHANGED tres
    /\ UNCHANGED <<cli_vars, extract_vars, closed, sa, all_sources, outcome, report>>

\* Faulty variant: the pacing delay placed after the `async with` block: the slot is
\* given back as soon as scrape_source has returned.
FetchReturnThenRelease(i) ==
    /\ i \in Tasks
    /\ sa = "gather"
    /\ tpc[i] = "fetching"
    /\ \E o \in FetchOutcomes :
          /\ outcome' = [outcome EXCEPT ![i] = o]
          /\ tres' = [tres EXCEPT ![i] = RecordOf(AddProtocol(all_sources[i].url), o)]
    /\ tpc' = [tpc EXCEPT ![i] = "sleeping"]
    /\ semaphore' = semaphore + 1
    /\ holder' = holder \ {i}
    /\ UNCHANGED <<cli_vars, extract_vars, session, created, closed, sa, all_sources, tsession,
                   requests, report>>

\* Faulty variant: a fetch that did not succeed is issued again.
FetchReturnRetry(i) ==
    /\ i \in Tasks
    /\ sa = "gather"
    /\ tpc[i] = "fetching"
    /\ \E o \in FetchOutcomes :
          /\ outcome' = [outcome EXCEPT ![i] = o]
          /\ IF o.kind = "response" /\ o.status = 200
             THEN /\ tres' = [tres EXCEPT ![i] = RecordOf(AddProtocol(all_sources[i].url), o)]
                  /\ tpc' = [tpc EXCEPT ![i] = "sleeping"]
                  /\ UNCHANGED requests
             ELSE /\ requests[i] < 2
                  /\ requests' = [requests EXCEPT ![i] = @ + 1]
                  /\ UNCHANGED <<tres, tpc>>
    /\ UNCHANGED <<cli_vars, extract_vars, session, created, closed, sa, all_sources, semaphore,
                   holder, tsession, report>>

\* The fetch of task i ends: scrape_source returns its record and the task
\* starts its pacing delay, still inside `async with semaphore`.
FetchReturn(i) ==
    /\ i \in Tasks
    /\ sa = "gather"
    /\ tpc[i] = "fetching"
    /\ \E o \in FetchOutcomes :
          /\ outcome' = [outcome EXCEPT ![i] = o]
          /\ tres' = [tres EXCEPT ![i] = RecordOf(AddProtocol(all_sources[i].url), o)]
    /\ tpc' = [tpc EXCEPT ![i] = "sleeping"]
    /\ UNCHANGED <<cli_vars, extract_vars, session, created, closed, sa, all_sources, semaphore,
                   holder, tsession, requests, report>>

\* asyncio.sleep(1) of task i has elapsed: the task returns its record and
\* leaves `async with semaphore`.
\* Faulty variant: the task ends without leaving the `async with` block.
SleepReturnKeepsSlot(i) ==
    /\ i \in Tasks
    /\ sa = "gather"
    /\ tpc[i] = "sleeping"
    /\ tpc' = [tpc EXCEPT ![i] = "done"]
    /\ UNCHANGED <<cli_vars, extract_vars, session, created, closed, sa, all_sources, tres,
                   tsession, requests, outcome, report, semaphore, holder>>

SleepReturn(i) ==
    /\ i \in Tasks
    /\ sa = "gather"
    /\ tpc[i] = "sleeping"
    /\ tpc' = [tpc EXCEPT ![i] = "done"]
    /\ semaphore' = semaphore + 1
    /\ holder' = holder \ {i}
    /\ UNCHANGED <<cli_vars, extract_vars, session, created, closed, sa, all_sources, tres,
                   tsession, requests, outcome, report>>

\* An entry of results or failures: the record, with the index of the
\* descriptor it was made for (the i of `for i, result in enumerate(results)`).
Entry(i, rec) == [idx |-> i, rec |-> rec]

\* "Process results": the branch taken for one element of gather's list.
IsSuccess(result) == ~IsException(result) /\ Get(result, "status") = PyStr("success")

\* Faulty variant: the pair is built with the first descriptor, not with
\* all_sources[i].
FailureOfFirstSource(i, result) ==
    IF IsException(result)
    THEN Entry(i, [source |-> all_sources[1], error |-> result.message])
    ELSE Entry(i, result)
FailureOf(i, result) ==
    IF IsException(result)
    THEN Entry(i, [source |-> all_sources[i], error |-> result.message])
    ELSE Entry(i, result)

Indices(n) == [i \in 1..n |-> i]

\* Faulty variant: the successes are collected last to first.
successful_scrapes_reversed(results) ==
    LET picked == SelectSeq(Indices(Len(results)), LAMBDA i : IsSuccess(results[i]))
    IN  [k \in 1..Len(picked) |->
            Entry(picked[Len(picked) + 1 - k], results[picked[Len(picked) + 1 - k]])]

successful_scrapes(results) ==
    LET picked == SelectSeq(Indices(Len(results)), LAMBDA i : IsSuccess(results[i]))
    IN  [k \in 1..Len(picked) |-> Entry(picked[k], results[picked[k]])]

\* Faulty variant: the final `else:` replaced by `elif result.get('status') == 'error':`.
failed_scrapes_status_error(results) ==
    LET picked == SelectSeq(Indices(Len(results)),
                            LAMBDA i : \/ IsException(results[i])
                                       \/ Get(results[i], "status") = PyStr("error"))
    IN  [k \in 1..Len(picked) |-> FailureOf(picked[k], results[picked[k]])]

\* Faulty variant: the `elif` replaced by `if`, its `else` made unconditional.
failed_scrapes_every(results) ==
    [k \in 1..Len(results) |-> FailureOf(k, results[k])]

failed_scrapes(results) ==
    LET picked == SelectSeq(Indices(Len(results)), LAMBDA i : ~IsSuccess(results[i]))
    IN  [k \in 1..Len(picked) |-> FailureOf(picked[k], results[picked[k]])]

RunReport(results) ==
    [total_sources      |-> Len(all_sources),
     successful_scrapes |-> Len(successful_scrapes(results)),
     failed_scrapes     |-> Len(failed_scrapes(results)),
     results            |-> successful_scrapes(results),
     failures           |-> failed_scrapes(results),
     timestamp          |-> Now]

\* asyncio.gather: with return_exceptions it waits for every task and hands
\* exceptions back as results; without, the first exception is raised to the
\* awaiter as soon as it happens.
GatherRaises == ~return_exceptions /\ \E i \in Tasks : tpc[i] = "done" /\ IsException(tres[i])
GatherFinished == GatherRaises \/ \A i \in Tasks : tpc[i] = "done"

\* scrape_all_sources from the return of gather to its own return.
GatherReturn ==
    /\ sa = "gather"
    /\ GatherFinished
    /\ IF GatherRaises
       THEN sa' = "raised" /\ UNCHANGED report
       ELSE sa' = "returned" /\ report' = RunReport(tres)
    /\ UNCHANGED <<cli_vars, extract_vars, session, created, closed, all_sources, semaphore, holder,
                   tpc, tres, tsession, requests, outcome>>

Next ==
    \/ ScrapeAllStart
    \/ \E i \in Tasks : TaskEnter(i)
    \/ \E i \in Tasks : FetchReturn(i)
    \/ \E i \in Tasks : SleepReturn(i)
    \/ GatherReturn

Spec == Init /\ [][Next]_vars

\* The event loop never stops while a task can run: every task that is ready
\* is run, every sleep elapses, and every fetch returns, fails or hits the 30 s
\* total timeout.
Fairness == WF_vars(Next)

\* Scheduling does not depend on the section a descriptor comes from: the
\* runs that are followed to their end start from the catalogs whose sources
\* are all preferred sources.
InitFair ==
    /\ Init
    /\ sources_data.sources_by_state = <<>>
    /\ sources_data.national_suppliers = [materials |-> <<>>, equipment |-> <<>>]

FairSpec == InitFair /\ [][Next]_vars /\ Fairness

\* The flattening alone: scrape_all_sources is called on a scraper whose
\* catalog may lack any of its keys, and is followed up to the creation of
\* the tasks.
InitFlatten ==
    /\ sources_file = "ok"
    /\ sources_data \in SparseCatalogs(MaxStates)
    /\ max_concurrent = MaxConcurrent
    /\ NotStarted
    /\ dry_run = FALSE
    /\ driver = "lib"

NextFlatten == ScrapeAllStart

FlattenSpec == InitFlatten /\ [][NextFlatten]_vars

(* ------------------------------------------------------- the CLI driver *)

\* close_session: the pair <<self.session, closed>> after the call.  The
\* faulty variant drops the reference without closing.
CloseSessionForgets(s, cl) == <<0, cl>>
close_session(s, cl) == IF s /= 0 THEN <<0, cl \cup {s}>> ELSE <<s, cl>>

\* The dry-run listing reads source['name'] and source['url'] of every
\* preferred source and every state source: KeyError when a key is absent,
\* TypeError when the descriptor is no mapping.
DryRunListed(data) == data.preferred_sources \o FlattenStates(data.sources_by_state)

DryRunRaises(data) ==
    \E k \in 1..Len(DryRunListed(data)) :
        LET source == DryRunListed(data)[k] IN
        ~source.mapping \/ ~source.has_name \/ ~source.has_url

\* The lines the listing has printed when it ends: all of them, or those
\* before the first descriptor whose line raises.
DryRunPrinted(data) ==
    LET walked == DryRunListed(data)
        bad == {k \in 1..Len(walked) :
                  ~walked[k].mapping \/ ~walked[k].has_name \/ ~walked[k].has_url}
    IN  SubSeq(walked, 1, Cardinality({k \in 1..Len(walked) : \A b \in bad : k < b}))

\* "Load sources to show count": the driver's own sum over the sections.  The
\* faulty variant leaves the national suppliers out, as the dry-run listing
\* does.
RECURSIVE CountStates(_)
CountStates(states) ==
    IF states = <<>> THEN 0
    ELSE Len(Section(Head(states), "materials")) + Len(Section(Head(states), "equipment"))
           + CountStates(Tail(states))

CountSourcesListed(data) ==
    Len(Section(data, "preferred_sources")) + CountStates(Section(data, "sources_by_state"))
CountSources(data) ==
    Len(Section(data, "preferred_sources"))
      + CountStates(Section(data, "sources_by_state"))
      + Len(Section(Section(data, "national_suppliers"), "materials"))
      + Len(Section(Section(data, "national_suppliers"), "equipment"))

\* sys.exit(main()): sys.exit(None) is status 0; a CancelledError out of
\* scrape_sources leaves asyncio.run as KeyboardInterrupt, which nothing
\* catches.
ExitCode(r) ==
    CASE r \in {"0", "None"} -> 0
      [] r = "1" -> 1
      [] OTHER -> 130

\* The command line has been parsed and main() is about to test the file.
InitCLI ==
    /\ Fresh
    /\ dry_run \in BOOLEAN
    /\ driver = "main"

\* main() and scrape_sources up to its first await: the test for the file,
\* the construction of the scraper, the count, and either the dry-run listing
\* or the call of scrape_all_sources.
CliMain ==
    /\ driver = "main"
    /\ IF sources_file = "missing"
       THEN /\ driver' = "exited"
            /\ exit_code' = 1
            /\ UNCHANGED <<sources_data, announced, listed, ret>>
       ELSE /\ sources_data' = LoadSources(sources_file, sources_data)
            /\ announced' = CountSources(sources_data')
            /\ IF dry_run
               THEN /\ driver' = "finally"
                    /\ listed' = DryRunPrinted(sources_data')
                    /\ ret' = IF DryRunRaises(sources_data') THEN "1" ELSE "None"
               ELSE /\ driver' = "call"
                    /\ UNCHANGED <<listed, ret>>
            /\ UNCHANGED exit_code
    /\ UNCHANGED <<extract_vars, sources_file, max_concurrent, dry_run, interrupted, saved, session,
                   created, closed, sa, all_sources, semaphore, holder, tpc, tres,
                   tsession, requests, outcome, report>>

\* SIGINT while scrape_sources awaits scrape_all_sources: the main task is
\* cancelled and gather passes the cancellation on to every task.  Each task
\* that has not ended gets CancelledError at the await it is suspended in;
\* `except Exception` does not catch it and `async with` gives the slot back.
\* When all have ended, CancelledError leaves gather and scrape_all_sources.
Interrupt ==
    /\ driver = "call"
    /\ sa = "gather"
    /\ interrupted' = TRUE
    /\ sa' = "cancelled"
    /\ tpc' = [i \in Tasks |-> IF tpc[i] = "done" THEN "done" ELSE "cancelled"]
    /\ semaphore' = semaphore + Cardinality(holder)
    /\ holder' = {}
    /\ UNCHANGED <<extract_vars, announced, listed, sources_file, sources_data, max_concurrent, dry_run, driver, saved,
                   exit_code, ret, session, created, closed, all_sources, tres,
                   tsession, requests, outcome, report>>

\* save_scraped_data: what becomes of the snapshot file, and whether the call
\* raises, when the write ends as given.  The faulty variant has no
\* try/except around the write.
WriteOutcomes == {"written", "failed"}
SaveWithoutExcept(write) == [saved |-> write, raised |-> write = "failed"]
save_scraped_data(write) == [saved |-> write, raised |-> FALSE]

\* args.output_file: a path of its own (given, or the generated
\* sources/scraped_data_<timestamp>.json), or the path of the sources file.
OutputFiles == {"snapshot", "sources_file"}

\* What is at the path of the sources file after open(filename, 'w') and
\* json.dump(data, f) on the output file.
FileAfterSave(file, output_file, write) ==
    IF output_file = "sources_file" /\ write = "written" THEN "overwritten" ELSE file

\* scrape_sources after `await scraper.scrape_all_sources(...)`: the summary
\* (a division by total_sources), the snapshot, and the except clauses.
DriverAfterScrape ==
    /\ driver = "call"
    /\ sa \in {"returned", "raised", "cancelled"}
    /\ driver' = "finally"
    /\ IF sa = "cancelled" THEN ret' = "CancelledError" /\ UNCHANGED <<saved, sources_file>>
       ELSE IF sa = "raised" THEN ret' = "1" /\ UNCHANGED <<saved, sources_file>>
       ELSE IF report.total_sources = 0 THEN ret' = "1" /\ UNCHANGED <<saved, sources_file>>
       ELSE \E output_file \in OutputFiles, write \in WriteOutcomes :
               /\ saved' = save_scraped_data(write).saved
               /\ sources_file' = FileAfterSave(sources_file, output_file, write)
               /\ ret' = IF save_scraped_data(write).raised THEN "1" ELSE "0"
    /\ UNCHANGED <<extract_vars, announced, listed, sources_data, max_concurrent, dry_run, interrupted,
                   exit_code, session, created, closed, sa, all_sources, semaphore,
                   holder, tpc, tres, tsession, requests, outcome, report>>

\* `finally: await scraper.close_session()`, then the process exits.
DriverFinally ==
    /\ driver = "finally"
    /\ session' = close_session(session, closed)[1]
    /\ closed' = close_session(session, closed)[2]
    /\ driver' = "exited"
    /\ exit_code' = ExitCode(ret)
    /\ UNCHANGED <<extract_vars, announced, listed, sources_file, sources_data, max_concurrent, dry_run, interrupted,
                   saved, ret, created, sa, all_sources, semaphore, holder, tpc, tres,
                   tsession, requests, outcome, report>>

NextCLI ==
    \/ CliMain
    \/ ScrapeAllStart
    \/ \E i \in Tasks : TaskEnter(i)
    \/ \E i \in Tasks : FetchReturn(i)
    \/ \E i \in Tasks : SleepReturn(i)
    \/ GatherReturn
    \/ Interrupt
    \/ DriverAfterScrape
    \/ DriverFinally

SpecCLI == InitCLI /\ [][NextCLI]_vars

\* The dry run alone, over catalogs that may also hold a descriptor without
\* name: main() with --dry-run up to the exit of the process.
InitDryRun ==
    /\ sources_file \in FileStates
    /\ \E content \in CatalogsOver(Descriptors \cup {UnnamedSource}, MaxSources) :
          sources_data = LoadSources(sources_file, content)
    /\ max_concurrent \in -1..MaxConcurrent
    /\ NotStarted
    /\ dry_run = TRUE
    /\ driver = "main"

NextDryRun ==
    \/ CliMain
    \/ DriverFinally

DryRunSpec == InitDryRun /\ [][NextDryRun]_vars

(* ----------------------------------------------------------- extraction *)

\* A text is a sequence of characters.  Letters(n) is a text of n characters
\* that begins with "f" and ends with "z"; Padded puts whitespace around.
Letters(n) == [i \in 1..n |-> IF i = n THEN "z" ELSE IF i = 1 THEN "f" ELSE "a"]
Padded(text) == <<" ">> \o text \o <<" ", " ">>

\* str.strip().
Strip(text) ==
    LET inked == {i \in 1..Len(text) : text[i] /= " "}
    IN  IF inked = {} THEN <<>>
        ELSE SubSeq(text, CHOOSE i \in inked : \A j \in inked : i <= j,
                          CHOOSE i \in inked : \A j \in inked : j <= i)

\* The thresholds of _extract_description, and the "..." it appends.
SubstantialLength == 50
DescriptionLimit == 200
Ellipsis == <<".", ".", ".">>

\* What soup.find(...) returns: None, or a tag with its content attribute
\* (meta) or its text (p).
NoTag == [tag |-> FALSE, content |-> <<>>]
Tag(content) == [tag |-> TRUE, content |-> content]

\* The product names the page and the descriptor hold, and the hash seeds a
\* Python process can run with: iteration over a set of str follows the
\* hashes, which change with the seed (PYTHONHASHSEED, random by default).
ProductNames == <<"seeds", "clones">>
HashSeeds == {0, 1}
Reverse(s) == [i \in 1..Len(s) |-> s[Len(s) + 1 - i]]

\* list(set(items)) in a process with the given hash seed.
ListOfSet(items, seed) ==
    LET members == {items[i] : i \in 1..Len(items)}
        order == IF seed = 0 THEN ProductNames ELSE Reverse(ProductNames)
    IN  SelectSeq(order, LAMBDA name : name \in members)

\* The documents tried: the description meta tag, the og:description meta
\* tag, the first paragraph, and the product names found, in document order.
Documents ==
    [meta : {NoTag, Tag(<<>>), Tag(<<" ">>), Tag(Letters(3)), Tag(Padded(Letters(3)))},
     og : {NoTag, Tag(<<>>), Tag(Padded(Letters(4)))},
     p : {NoTag} \cup {Tag(Letters(n)) : n \in {0, SubstantialLength, SubstantialLength + 1,
                                                DescriptionLimit, DescriptionLimit + 1}}
                 \cup {Tag(Padded(Letters(n))) : n \in {SubstantialLength, DescriptionLimit + 1}},
     products : SeqsUpTo({ProductNames[i] : i \in 1..Len(ProductNames)}, 2)]

\* _extract_description.  The faulty variant takes a paragraph of exactly
\* SubstantialLength characters too.
extract_description_at_least(doc) ==
    IF doc.meta.tag /\ doc.meta.content /= <<>> THEN Strip(doc.meta.content)
    ELSE IF doc.og.tag /\ doc.og.content /= <<>> THEN Strip(doc.og.content)
    ELSE IF doc.p.tag /\ Len(Strip(doc.p.content)) >= SubstantialLength
         THEN LET text == Strip(doc.p.content) IN
              IF Len(text) > DescriptionLimit
              THEN SubSeq(text, 1, DescriptionLimit) \o Ellipsis ELSE text
    ELSE <<>>
extract_description(doc) ==
    IF doc.meta.tag /\ doc.meta.content /= <<>> THEN Strip(doc.meta.content)
    ELSE IF doc.og.tag /\ doc.og.content /= <<>> THEN Strip(doc.og.content)
    ELSE IF doc.p.tag /\ Len(Strip(doc.p.content)) > SubstantialLength
         THEN LET text == Strip(doc.p.content) IN
              IF Len(text) > DescriptionLimit
              THEN SubSeq(text, 1, DescriptionLimit) \o Ellipsis ELSE text
    ELSE <<>>

\* _extract_products: the names in document order, then list(set(...)).
extract_products(doc, seed) == ListOfSet(doc.products, seed)

\* scrape_source has read the body and parsed it.
ParseDocument ==
    /\ html = NoDocument
    /\ html' \in Documents
    /\ UNCHANGED <<cli_vars, session, created, closed, sa, all_sources, semaphore, holder,
                   tpc, tres, tsession, requests, outcome, report, extracted>>

\* One run of the extraction on the parsed document, in a process with some
\* hash seed.
ExtractRun ==
    /\ html /= NoDocument
    /\ Len(extracted) < MaxRuns
    /\ \E seed \in HashSeeds :
          extracted' = Append(extracted, [description |-> extract_description(html),
                                          products |-> extract_products(html, seed)])
    /\ UNCHANGED <<cli_vars, session, created, closed, sa, all_sources, semaphore, holder,
                   tpc, tres, tsession, requests, outcome, report, html>>

InitExtract ==
    /\ sources_file = "ok"
    /\ sources_data = EmptyCatalog
    /\ max_concurrent = MaxConcurrent
    /\ NotStarted
    /\ dry_run = FALSE
    /\ driver = "lib"

NextExtract ==
    \/ ParseDocument
    \/ ExtractRun

ExtractSpec == InitExtract /\ [][NextExtract]_vars

(* --------------------------------------------------------------- claims *)

\* The number of entries of a sequence of entries that were made for descriptor i.
EntriesFor(entries, i) == Cardinality({k \in 1..Len(entries) : entries[k].idx = i})

\* The task of descriptor i ended in a failure: an exception out of the task,
\* or a record that is no success.
TaskFailed(i) == tpc[i] \in {"sleeping", "done"} /\ ~IsSuccess(tres[i])

\* C1: the report scrape_all_sources returns satisfies successful_scrapes +
\* failed_scrapes = total_sources, len(results) = successful_scrapes and
\* len(failures) = failed_scrapes, total_sources being the number of sources.
C1_ReportCounts ==
    sa = "returned" =>
        /\ report.successful_scrapes + report.failed_scrapes = report.total_sources
        /\ Len(report.results) = report.successful_scrapes
        /\ Len(report.failures) = report.failed_scrapes
        /\ report.total_sources = Len(FlattenCatalog(sources_data))

C1_Witness ==
    /\ sa = "returned"
    /\ report.successful_scrapes >= 1
    /\ report.failed_scrapes >= 1
    /\ \E i \in Tasks : IsException(tres[i])

\* C2: in the returned report every descriptor of the flattened list has
\* exactly one entry in results and failures together, made from that
\* descriptor's own task, and every entry belongs to a descriptor.
C2_OneEntryPerDescriptor ==
    sa = "returned" =>
        /\ \A i \in 1..Len(all_sources) :
              EntriesFor(report.results, i) + EntriesFor(report.failures, i) = 1
        /\ \A k \in 1..Len(report.results) :
              /\ report.results[k].idx \in 1..Len(all_sources)
              /\ report.results[k].rec = tres[report.results[k].idx]
        /\ \A k \in 1..Len(report.failures) :
              LET e == report.failures[k] IN
              /\ e.idx \in 1..Len(all_sources)
              /\ IF IsException(tres[e.idx])
                 THEN e.rec.source = all_sources[e.idx]
                 ELSE e.rec = tres[e.idx]

C2_Witness ==
    /\ sa = "returned"
    /\ Len(all_sources) = 2
    /\ Len(report.results) = 1
    /\ report.results[1].idx = 2
    /\ Len(report.failures) = 1

\* C3: with max_concurrent = N >= 1 there are never more than N fetches
\* (calls of scrape_source) in flight.
InFlight == {i \in Tasks : tpc[i] = "fetching"}

C3_ConcurrencyBound ==
    max_concurrent >= 1 => Cardinality(InFlight) <= max_concurrent

C3_Witness ==
    /\ max_concurrent = 1
    /\ Cardinality(InFlight) = 1
    /\ \E i \in Tasks : tpc[i] = "pending" /\ ~UrlFalsy(all_sources[i]) /\ all_sources[i].mapping

\* C4: a fetch that ends in an exception (network error, timeout, parse
\* error) makes scrape_source return a record with status "error" and a
\* non-empty error, and nothing is raised.
C4_ErrorRecordNonEmpty ==
    \A i \in Tasks :
        outcome[i].kind = "exception" =>
            /\ ~IsException(tres[i])
            /\ Get(tres[i], "status") = PyStr("error")
            /\ "error" \in DOMAIN tres[i]
            /\ tres[i].error /= ""

\* C5: the failure of one task (an error record, or an exception out of the
\* task) cancels no sibling and does not make scrape_all_sources raise: once it
\* has returned, every other task has run to completion and has its entry in
\* the report.
C5_FailureIsolated ==
    \A i \in Tasks :
        TaskFailed(i) =>
            /\ sa /= "raised"
            /\ \A j \in Tasks : tpc[j] /= "cancelled"
            /\ sa = "returned" =>
                  \A j \in Tasks \ {i} :
                      /\ tpc[j] = "done"
                      /\ EntriesFor(report.results, j) + EntriesFor(report.failures, j) = 1

C5_Witness ==
    /\ sa = "returned"
    /\ \E i, j \in Tasks :
          /\ IsException(tres[i])
          /\ IsSuccess(tres[j])
          /\ EntriesFor(report.results, j) = 1

\* C6: when the CLI driver has finished, on whatever path (normal completion,
\* dry run, exception, interrupt during the batch await), scraper.session is
\* None and every session that was created has been closed.
C6_SessionReleased ==
    driver = "exited" =>
        /\ session = 0
        /\ \A k \in 1..created : k \in closed

C6_Witness ==
    /\ driver = "exited"
    /\ interrupted
    /\ created = 1
    /\ closed = {1}
    /\ \E i \in Tasks : tpc[i] = "cancelled" /\ requests[i] = 1

\* C7: within one run at most one session is created, not before a task
\* needs it, and every task that fetches is handed that one session.
C7_OneSession ==
    /\ created <= 1
    /\ session = created
    /\ created = 1 <=> \E i \in Tasks : requests[i] > 0
    /\ \A i \in Tasks : requests[i] > 0 => tsession[i] = 1

C7_Witness ==
    /\ created = 1
    /\ \E i, j \in Tasks : i /= j /\ tpc[i] = "fetching" /\ tpc[j] = "fetching"
                           /\ tsession[i] = tsession[j]

\* C8: in a run that is not interrupted, a task holds its slot while it
\* fetches and while it sleeps its pacing delay; it gives the slot back only in
\* the step in which the delay has elapsed, a task that has fetched ends only
\* from its delay, and a task is admitted only while fewer than max_concurrent
\* tasks hold a slot.
C8_SlotKeptThroughDelay ==
    /\ [](\A i \in Tasks : tpc[i] \in {"fetching", "sleeping"} => i \in holder)
    /\ [](semaphore = (IF sa = "idle" \/ max_concurrent < 0 THEN 0 ELSE max_concurrent)
                        - Cardinality(holder))
    /\ [][\A i \in holder : i \notin holder' => tpc[i] = "sleeping" /\ tpc'[i] = "done"]_vars
    /\ [][\A i \in Tasks : (requests[i] >= 1 /\ tpc[i] /= "done" /\ tpc'[i] = "done")
                                => tpc[i] = "sleeping"]_vars
    /\ [][\A i \in holder' \ holder : Cardinality(holder) < max_concurrent]_vars

C8_Witness ==
    /\ semaphore = 0
    /\ \E i, j \in Tasks :
          /\ tpc[i] = "sleeping" /\ requests[i] = 1 /\ i \in holder
          /\ tpc[j] = "pending"

\* C9: no retries: every descriptor's URL is requested at most once, and a
\* fetch that failed leaves exactly one error record in the report.
C9_NoRetries ==
    /\ \A i \in Tasks : requests[i] <= 1
    /\ \A i \in Tasks : outcome[i].kind /= "none" => requests[i] = 1
    /\ sa = "returned" =>
          \A i \in Tasks :
              (requests[i] >= 1 /\ ~IsSuccess(tres[i])) =>
                  /\ EntriesFor(report.failures, i) = 1
                  /\ EntriesFor(report.results, i) = 0

C9_Witness ==
    /\ sa = "returned"
    /\ \E i \in Tasks :
          /\ outcome[i].kind = "exception"
          /\ requests[i] = 1
          /\ EntriesFor(report.failures, i) = 1

C11_ErrorRecordWithoutStatus ==
    \A i \in Tasks :
        outcome[i].kind = "exception" =>
            /\ ~IsException(tres[i])
            /\ "error" \in DOMAIN tres[i]
            /\ tres[i].error = outcome[i].message
            /\ "status" \notin DOMAIN tres[i]

\* C11 (amended): such a record carries error equal to the exception's
\* message, and its status field is the string 'error'.
C11_ErrorRecordStatusError ==
    \A i \in Tasks :
        outcome[i].kind = "exception" =>
            /\ ~IsException(tres[i])
            /\ "error" \in DOMAIN tres[i]
            /\ tres[i].error = outcome[i].message
            /\ Get(tres[i], "status") = PyStr("error")

C11_Witness ==
    \E i, j \in Tasks :
        /\ outcome[i] = [kind |-> "exception", status |-> 0, message |-> "Cannot connect to host"]
        /\ tpc[i] = "done"
        /\ outcome[j].kind = "exception" /\ outcome[j].status = 200
        /\ tpc[j] = "done"

\* C12: a response whose status is not 200 gives an error record with error
\* "HTTP <code>" and status the integer code; nothing is extracted from it
\* (no title), and in the returned report the record is in failures once and
\* not in results.
C12_HttpErrorRecord ==
    \A i \in Tasks :
        (outcome[i].kind = "response" /\ outcome[i].status /= 200) =>
            /\ ~IsException(tres[i])
            /\ "error" \in DOMAIN tres[i]
            /\ tres[i].error = "HTTP " \o ToString(outcome[i].status)
            /\ Get(tres[i], "status") = PyInt(outcome[i].status)
            /\ "title" \notin DOMAIN tres[i]
            /\ sa = "returned" =>
                  /\ EntriesFor(report.failures, i) = 1
                  /\ EntriesFor(report.results, i) = 0
                  /\ \A k \in 1..Len(report.failures) :
                        report.failures[k].idx = i => report.failures[k].rec = tres[i]

C12_Witness ==
    /\ sa = "returned"
    /\ \E i \in Tasks :
          /\ outcome[i] = [kind |-> "response", status |-> 404, message |-> ""]
          /\ tres[i].error = "HTTP 404"
          /\ EntriesFor(report.failures, i) = 1

\* A descriptor that is a mapping whose url is missing or the empty string.
UrlMissingOrEmpty(source) ==
    source.mapping /\ (~source.has_url \/ (source.url.scheme = "" /\ source.url.rest = ""))

\* C13: a descriptor whose url is missing or empty gives the record
\* {error: "No URL provided"}, which has no status field; no request is
\* issued for it and no session is handed to it, a run in which no descriptor
\* has a URL creates no session at all, and in the returned report the record
\* is in failures once and not in results.
C13_NoUrlRecord ==
    /\ \A i \in Tasks :
          UrlMissingOrEmpty(all_sources[i]) =>
              /\ requests[i] = 0
              /\ tsession[i] = 0
              /\ outcome[i].kind = "none"
              /\ tpc[i] \in {"sleeping", "done"} =>
                    /\ tres[i] = [error |-> "No URL provided"]
                    /\ "status" \notin DOMAIN tres[i]
              /\ sa = "returned" =>
                    /\ EntriesFor(report.failures, i) = 1
                    /\ EntriesFor(report.results, i) = 0
                    /\ \A k \in 1..Len(report.failures) :
                          report.failures[k].idx = i =>
                              report.failures[k].rec = [error |-> "No URL provided"]
    /\ (\A i \in Tasks : UrlMissingOrEmpty(all_sources[i])) => created = 0 /\ session = 0

\* The scenario: one good and one empty-URL preferred source, max_concurrent 2.
C13_Witness ==
    /\ sa = "returned"
    /\ sources_data = Catalog(<<GoodSource, EmptyUrlSource>>, <<>>, <<>>, <<>>)
    /\ max_concurrent = 2
    /\ report.total_sources = 2
    /\ report.successful_scrapes + report.failed_scrapes = 2
    /\ \E k \in 1..Len(report.failures) :
          report.failures[k] = [idx |-> 2, rec |-> [error |-> "No URL provided"]]

\* C14: every record scrape_source has returned, on every path, carries a
\* url, a timestamp and a status that is 'success' or 'error'.
C14_RecordFields ==
    \A i \in Tasks :
        (tpc[i] \in {"sleeping", "done"} /\ ~IsException(tres[i])) =>
            /\ "url" \in DOMAIN tres[i]
            /\ "timestamp" \in DOMAIN tres[i]
            /\ Get(tres[i], "status") \in {PyStr("success"), PyStr("error")}

\* C15 (as stated): in the returned report a descriptor's record is in
\* results if and only if its fetch returned status 200.
C15_SuccessIffStatus200 ==
    sa = "returned" =>
        \A i \in Tasks :
            EntriesFor(report.results, i) = 1 <=> outcome[i].status = 200

\* C15 (amended): in the returned report a descriptor's record is in results
\* if and only if its fetch returned status 200 and the body was then read and
\* parsed without an exception; otherwise it is in failures.
C15_SuccessIffStatus200AndRead ==
    sa = "returned" =>
        \A i \in Tasks :
            /\ EntriesFor(report.results, i) = 1
                  <=> (outcome[i].kind = "response" /\ outcome[i].status = 200)
            /\ EntriesFor(report.failures, i) = 1
                  <=> ~(outcome[i].kind = "response" /\ outcome[i].status = 200)

C15_Witness ==
    /\ sa = "returned"
    /\ \E i, j \in Tasks :
          /\ outcome[i] = [kind |-> "response", status |-> 200, message |-> ""]
          /\ EntriesFor(report.results, i) = 1
          /\ outcome[j].kind = "exception" /\ outcome[j].status = 200
          /\ EntriesFor(report.failures, j) = 1

\* d[key], or the empty list when d has no such key.
OrEmpty(d, key) == IF key \in DOMAIN d THEN d[key] ELSE <<>>

\* The sections of a catalog in the claimed order: preferred; materials and
\* equipment of the 1st state, of the 2nd, ...; national materials; national
\* equipment.
SectionsInOrder(data) ==
    LET states   == OrEmpty(data, "sources_by_state")
        national == OrEmpty(data, "national_suppliers")
    IN  <<OrEmpty(data, "preferred_sources")>>
          \o [n \in 1..(2 * Len(states)) |->
                IF n % 2 = 1 THEN OrEmpty(states[(n + 1) \div 2], "materials")
                             ELSE OrEmpty(states[n \div 2], "equipment")]
          \o <<OrEmpty(national, "materials"), OrEmpty(national, "equipment")>>

\* Total length of the first n sections.
RECURSIVE LengthOfFirst(_, _)
LengthOfFirst(sections, n) ==
    IF n = 0 THEN 0 ELSE LengthOfFirst(sections, n - 1) + Len(sections[n])

\* C16: once scrape_all_sources has collected the sources, the k-th descriptor
\* of the n-th section (in the claimed order, absent keys counting as empty
\* sections) is at position k after all descriptors of the sections before
\* it, and the list holds nothing else.
C16_FlattenOrder ==
    sa /= "idle" =>
        LET sections == SectionsInOrder(sources_data) IN
        /\ Len(all_sources) = LengthOfFirst(sections, Len(sections))
        /\ \A n \in 1..Len(sections) : \A k \in 1..Len(sections[n]) :
              all_sources[LengthOfFirst(sections, n - 1) + k] = sections[n][k]

\* Two states, the first without equipment, no preferred sources, national
\* suppliers with both sections.
C16_Witness ==
    /\ sa = "gather"
    /\ DOMAIN sources_data = {"sources_by_state", "national_suppliers"}
    /\ Len(sources_data.sources_by_state) = 2
    /\ sources_data.sources_by_state[1] = [materials |-> <<NoUrlSource, GoodSource>>]
    /\ sources_data.sources_by_state[2] =
          [materials |-> <<>>, equipment |-> <<GoodSource>>]
    /\ sources_data.national_suppliers =
          [materials |-> <<GoodSource>>, equipment |-> <<NoUrlSource, GoodSource>>]
    /\ all_sources = <<NoUrlSource, GoodSource, GoodSource, GoodSource, NoUrlSource, GoodSource>>

\* C17: when scrape_all_sources has returned to the CLI driver, total_sources
\* of its report is the length of the flattened source list, and the count
\* the driver announced before scraping is that same number.
C17_TotalIsAnnounced ==
    (driver /= "lib" /\ sa = "returned") =>
        /\ report.total_sources = Len(all_sources)
        /\ Len(tpc) = Len(all_sources)
        /\ announced = report.total_sources

C17_Witness ==
    /\ sa = "returned"
    /\ driver = "finally"
    /\ announced = 2
    /\ report.total_sources = 2
    /\ Len(sources_data.national_suppliers.equipment) = 1
    /\ Len(sources_data.sources_by_state) = 1
    /\ Len(sources_data.sources_by_state[1].materials) = 1

\* C18: a live CLI run (no --dry-run, not interrupted, max_concurrent not
\* negative) over a sources file that exists but flattens to zero sources ends
\* with exit code 0.
C18_EmptyCatalogExitsZero ==
    (/\ driver = "exited"
     /\ sources_file /= "missing"
     /\ ~dry_run
     /\ ~interrupted
     /\ max_concurrent >= 0
     /\ announced = 0) => exit_code = 0

\* C19: when the sources file is missing or no valid JSON, the constructed
\* scraper holds the empty catalog; scrape_all_sources on it (max_concurrent
\* not negative) does not raise, has no task to wait for, and returns a report
\* with total_sources 0 and empty results and failures; no session is created
\* and no request issued.
C19_UnreadableFileEmptyRun ==
    (driver = "lib" /\ sources_file \in {"missing", "malformed"}) =>
        /\ sources_data = [preferred_sources |-> <<>>, sources_by_state |-> <<>>,
                           national_suppliers |-> [materials |-> <<>>, equipment |-> <<>>]]
        /\ max_concurrent >= 0 => sa \in {"idle", "gather", "returned"}
        /\ sa /= "idle" => all_sources = <<>> /\ Tasks = {}
        /\ sa = "returned" =>
              /\ report.total_sources = 0
              /\ report.successful_scrapes = 0
              /\ report.failed_scrapes = 0
              /\ report.results = <<>>
              /\ report.failures = <<>>
        /\ created = 0
        /\ session = 0
        /\ requests = <<>>

C19_Witness ==
    /\ driver = "lib"
    /\ sources_file = "malformed"
    /\ sa = "returned"
    /\ report.total_sources = 0
    /\ created = 0

\* C20: when the write of the snapshot fails, the driver goes on as after a
\* successful write: scrape_sources returns 0, the exit code is 0, and the
\* step in which the write fails leaves the run report as it was.
C20_WriteFailureNotRaised ==
    /\ [](saved = "failed" =>
            /\ ret = "0"
            /\ sa = "returned"
            /\ report /= NoReport
            /\ driver = "exited" => exit_code = 0)
    /\ [][(saved /= "failed" /\ saved' = "failed") => report' = report]_vars

C20_Witness ==
    /\ saved = "failed"
    /\ driver = "exited"
    /\ exit_code = 0
    /\ report.total_sources = 2

\* Every descriptor of the catalog is a mapping with a non-empty url.
EveryDescriptorHasUrl(data) ==
    \A k \in 1..Len(FlattenCatalog(data)) :
        LET source == FlattenCatalog(data)[k] IN
        source.mapping /\ source.has_url /\ UrlText(source.url) /= ""

\* C21: a run with --dry-run over an existing sources file whose descriptors
\* all have a url (with or without a name) creates no session, issues no
\* request, writes no snapshot and exits with code 0.
C21_DryRunExitsZero ==
    (/\ driver = "exited"
     /\ dry_run
     /\ sources_file /= "missing"
     /\ EveryDescriptorHasUrl(sources_data)) =>
        /\ created = 0
        /\ session = 0
        /\ sa = "idle"
        /\ requests = <<>>
        /\ saved = "no"
        /\ exit_code = 0

\* C22: the list a --dry-run run that exits with code 0 has printed is the
\* flattened source list a live run would scrape, every descriptor once and in
\* the flattened order.
C22_DryRunListsFlattened ==
    (driver = "exited" /\ dry_run /\ exit_code = 0) =>
        listed = FlattenCatalog(sources_data)

\* C23: a CLI run that has exited has exit code 1 exactly when the sources
\* file does not exist (then nothing was scraped and no request issued) or an
\* exception reached the driver's `except Exception`; every other run has
\* exit code 0, in particular a live run over a non-empty catalog whose
\* scrape_all_sources returned, however many scrapes failed.
C23_ExitCodes ==
    driver = "exited" =>
        /\ exit_code \in {0, 1}
        /\ exit_code = 1 <=> (sources_file = "missing" \/ ret = "1")
        /\ sources_file = "missing" => (sa = "idle" /\ created = 0 /\ requests = <<>>)
        /\ (~dry_run /\ sa = "returned" /\ report.total_sources > 0) => exit_code = 0

\* C24: no step of a CLI run changes what is on disk at the path of the
\* sources file, whatever --sources-file and --output-file are.
C24_SourcesFileUnchanged == [][sources_file' = sources_file]_vars

\* C27: a task whose descriptor is no mapping raises out of scrape_source;
\* gather hands the exception back, scrape_all_sources does not raise, and in
\* the returned report that descriptor is in failures once and not in results,
\* as the pair of the descriptor at its own index and the exception's message,
\* and failed_scrapes counts it.
C27_RaisedTaskInFailures ==
    \A i \in Tasks :
        ~all_sources[i].mapping =>
            /\ sa \in {"gather", "returned"}
            /\ tpc[i] = "done" => IsException(tres[i])
            /\ sa = "returned" =>
                  /\ EntriesFor(report.failures, i) = 1
                  /\ EntriesFor(report.results, i) = 0
                  /\ \A k \in 1..Len(report.failures) :
                        report.failures[k].idx = i =>
                            report.failures[k].rec =
                                [source |-> all_sources[i],
                                 error |-> "object has no attribute 'get'"]
                  /\ report.failed_scrapes = Len(report.failures)
                  /\ report.failed_scrapes >= 1

C27_Witness ==
    /\ sa = "returned"
    /\ Len(all_sources) = 2
    /\ all_sources[1].mapping
    /\ ~all_sources[2].mapping
    /\ report.successful_scrapes = 1
    /\ report.failed_scrapes = 1

\* The entries of a list are in the order of their descriptors.
InDescriptorOrder(entries) ==
    \A k, l \in 1..Len(entries) : k < l => entries[k].idx < entries[l].idx

\* C28: in the returned report results and failures each list their records
\* in the order of the descriptors in the flattened source list, whatever the
\* order in which the tasks ended.
C28_ReportInDescriptorOrder ==
    sa = "returned" =>
        /\ InDescriptorOrder(report.results)
        /\ InDescriptorOrder(report.failures)

\* The second task has ended while the first, whose record goes to the same
\* list, has not.
C28_Witness ==
    /\ sa = "gather"
    /\ Len(all_sources) = 2
    /\ tpc[2] = "done"
    /\ IsSuccess(tres[2])
    /\ tpc[1] = "sleeping"
    /\ IsSuccess(tres[1])

\* C29: scrape_all_sources over a non-empty source list, whatever
\* max_concurrent is, eventually returns a report or raises.
C29_NeverBlocks ==
    [](Len(FlattenCatalog(sources_data)) > 0 => <>(sa \in {"returned", "raised"}))

\* C30: while and after the tasks run, the tasks holding a slot and the free
\* slots add up to max_concurrent; the holders are the tasks that fetch or
\* sleep, so a task that has ended, with a record or with an exception, holds
\* none; a slot is given back only by a task that held one and ends; and when
\* scrape_all_sources has returned every slot is free.
C30_SlotsConserved ==
    /\ [](sa \in {"gather", "returned"} =>
            /\ semaphore >= 0
            /\ semaphore + Cardinality(holder) = max_concurrent
            /\ holder = {i \in Tasks : tpc[i] \in {"fetching", "sleeping"}}
            /\ sa = "returned" => (holder = {} /\ semaphore = max_concurrent))
    /\ [][semaphore' > semaphore /\ sa = "gather" =>
             /\ semaphore' = semaphore + 1
             /\ \E i \in holder : tpc'[i] = "done" /\ holder' = holder \ {i}]_vars

C30_Witness ==
    /\ sa = "returned"
    /\ max_concurrent = 2
    /\ semaphore = 2
    /\ Len(all_sources) = 2
    /\ IsException(tres[1])
    /\ ~IsException(tres[2])

\* C25: two runs of the extraction on the same descriptor and the same
\* document return the same value for every extracted field, the order of the
\* sequences included.
C25_ExtractionDeterministic ==
    \A a, b \in 1..Len(extracted) : extracted[a] = extracted[b]

\* The description the claim gives for a document.
ClaimedDescription(doc) ==
    LET paragraph == Strip(doc.p.content) IN
    IF doc.meta.tag /\ Len(doc.meta.content) > 0 THEN Strip(doc.meta.content)
    ELSE IF doc.og.tag /\ Len(doc.og.content) > 0 THEN Strip(doc.og.content)
    ELSE IF doc.p.tag /\ Len(paragraph) >= 51 /\ Len(paragraph) <= 200 THEN paragraph
    ELSE IF doc.p.tag /\ Len(paragraph) >= 201
         THEN [i \in 1..203 |-> IF i <= 200 THEN paragraph[i] ELSE "."]
    ELSE <<>>

\* C26: the description extracted is the non-empty meta description content,
\* else the non-empty og:description content, else the first paragraph's text
\* if it is longer than 50 characters (whole up to 200 characters, else its
\* first 200 characters and "..."), else the empty string, texts being taken
\* without surrounding whitespace; a paragraph of 50 characters or fewer is
\* never what comes from the paragraph.
C26_DescriptionPrecedence ==
    \A a \in 1..Len(extracted) :
        /\ extracted[a].description = ClaimedDescription(html)
        /\ (/\ ~(html.meta.tag /\ html.meta.content /= <<>>)
            /\ ~(html.og.tag /\ html.og.content /= <<>>)
            /\ Len(Strip(html.p.content)) <= 50) => extracted[a].description = <<>>

\* A paragraph of 201 characters, with whitespace around, is cut to its first
\* 200 characters and "...", no meta tag having content.
C26_Witness ==
    /\ Len(extracted) >= 1
    /\ html.meta = [tag |-> TRUE, content |-> <<>>]
    /\ ~html.og.tag
    /\ Len(html.p.content) = 204
    /\ Len(extracted[1].description) = 203
    /\ extracted[1].description[1] = "f"
    /\ extracted[1].description[200] = "a"
    /\ extracted[1].description[203] = "."

====
